---------------------------- MODULE Spec2Model ----------------------------
(***************************************************************************)
(* Model of the commission tracker (src/app.py): the sale store, the       *)
(* enter_sale handler and the commission_calculator handler with the       *)
(* bracket functions it calls.                                             *)
(*                                                                         *)
(* Representation of values.                                               *)
(*  - Raw form text is a sequence of integer tokens: <<>> is the empty or  *)
(*    absent field, <<2024, 2, 29>> is the text "2024-02-29", <<12000>> is *)
(*    the text "12000" and <<1, 2>> is a text such as "1 2" that float()   *)
(*    refuses.  A client name is a sequence of one-character strings.      *)
(*  - A date is <<year, month, day>>.                                      *)
(*  - A Python float holding money is an integer.  Premiums and the FS     *)
(*    monthly total are whole dollars; a commission rate is in hundredths  *)
(*    (0.07 is 7); the commission amount, the bonuses and the totals are   *)
(*    in hundredths of a dollar, so that premium * rate needs no division  *)
(*    (800.0 dollars is Dollars(800)).                                     *)
(*  - An optional value (Python None) is a sequence of length 0 or 1.      *)
(***************************************************************************)
EXTENDS Integers, Sequences, FiniteSets

VARIABLES sales, request, response, call

vars == <<sales, request, response, call>>

\* ------------------------------------------------------------------ bounds
MaxSales == 2
MaxPcApps == 51
MaxLifeApps == 8
MaxHealthApps == 1
MaxFsTotal == 1001

\* --------------------------------------------------------------- constants
P_AND_C_CATEGORIES ==
    {"auto", "homeowners", "renters", "plup", "pap", "other_fire", "bank", "business"}

FS_CATEGORIES == {"life", "health"}

CATEGORY_LABELS ==
    << <<"auto", "Auto">>, <<"homeowners", "Homeowners">>, <<"renters", "Renters">>,
       <<"plup", "Personal Umbrella">>, <<"pap", "Personal Articles">>,
       <<"other_fire", "Other Fire">>, <<"life", "Life">>, <<"health", "Health">>,
       <<"bank", "Bank">>, <<"business", "Business">> >>

\* dict(CATEGORY_LABELS): the keys of the label table.
CategoryKeys == {CATEGORY_LABELS[i][1] : i \in 1..Len(CATEGORY_LABELS)}

\* A float amount in dollars, in the model's hundredths of a dollar.
Dollars(d) == 100 * d

\* ------------------------------------------------------------------- dates
IsLeap(y) == (y % 4 = 0 /\ y % 100 # 0) \/ y % 400 = 0

DaysInMonth(y, m) ==
    IF m = 2 THEN (IF IsLeap(y) THEN 29 ELSE 28)
    ELSE IF m \in {4, 6, 9, 11} THEN 30 ELSE 31

\* datetime.strptime(raw, "%Y-%m-%d") raises ValueError unless this holds.
strptime_date_ok(raw) ==
    /\ Len(raw) = 3
    /\ raw[1] \in 1..9999
    /\ raw[2] \in 1..12
    /\ raw[3] \in 1..DaysInMonth(raw[1], raw[2])

\* datetime.strptime(raw, "%Y-%m-%d").date()
strptime_date(raw) == <<raw[1], raw[2], raw[3]>>

\* datetime.strptime(raw, "%Y-%m") raises ValueError unless this holds.
strptime_month_ok(raw) ==
    /\ Len(raw) = 2
    /\ raw[1] \in 1..9999
    /\ raw[2] \in 1..12

\* datetime.strptime(raw, "%Y-%m"): the first day of the month.
strptime_month(raw) == <<raw[1], raw[2], 1>>

\* d1 <= d2 on dates.
DateLE(d1, d2) ==
    \/ d1[1] < d2[1]
    \/ d1[1] = d2[1] /\ d1[2] < d2[2]
    \/ d1[1] = d2[1] /\ d1[2] = d2[2] /\ d1[3] <= d2[3]

\* d + relativedelta(months=1): the day is clipped to the new month's length.
AddOneMonth(d) ==
    LET y == IF d[2] = 12 THEN d[1] + 1 ELSE d[1]
        m == IF d[2] = 12 THEN 1 ELSE d[2] + 1
        n == DaysInMonth(y, m)
    IN  <<y, m, IF d[3] > n THEN n ELSE d[3]>>

\* d - relativedelta(days=1)
SubOneDay(d) ==
    IF d[3] > 1 THEN <<d[1], d[2], d[3] - 1>>
    ELSE IF d[2] > 1 THEN <<d[1], d[2] - 1, DaysInMonth(d[1], d[2] - 1)>>
    ELSE <<d[1] - 1, 12, 31>>

start_of_month(target_month) == <<target_month[1], target_month[2], 1>>

end_of_month(target_month) == SubOneDay(AddOneMonth(start_of_month(target_month)))

\* ----------------------------------------------------------------- parsing
\* float(raw) raises ValueError unless the text is one number.
float_ok(raw) == Len(raw) = 1

float(raw) == raw[1]

RECURSIVE lstrip(_)
lstrip(s) == IF s # <<>> /\ Head(s) = " " THEN lstrip(Tail(s)) ELSE s

RECURSIVE rstrip(_)
rstrip(s) ==
    IF s # <<>> /\ s[Len(s)] = " " THEN rstrip(SubSeq(s, 1, Len(s) - 1)) ELSE s

\* str.strip()
strip(s) == rstrip(lstrip(s))

\* `x or 0` on an optional float.
OrZero(x) == IF x = <<>> THEN 0 ELSE x[1]

\* ------------------------------------------------------- bracket functions
\* get_commission_rate with the top tier's boundary test written > for >=.
get_commission_rate_off_by_one(p_c_apps, life_apps) ==
    IF p_c_apps <= 0 THEN 0
    ELSE
      LET brackets ==
            IF life_apps >= 5 THEN <<7, 9, 10, 11, 12>>
            ELSE IF life_apps = 4 THEN <<6, 8, 9, 10, 11>>
            ELSE IF life_apps = 3 THEN <<5, 7, 8, 9, 10>>
            ELSE IF life_apps = 2 THEN <<4, 6, 7, 8, 9>>
            ELSE <<2, 4, 5, 6, 7>>
      IN  IF p_c_apps > 50 THEN brackets[5]
          ELSE IF p_c_apps >= 40 THEN brackets[4]
          ELSE IF p_c_apps >= 30 THEN brackets[3]
          ELSE IF p_c_apps >= 20 THEN brackets[2]
          ELSE IF p_c_apps >= 1 THEN brackets[1]
          ELSE 0

\* The rate in hundredths.  brackets[1..5] are the keys "1-19", "20-29",
\* "30-39", "40-49" and "50+" of the code's dict.
get_commission_rate(p_c_apps, life_apps) ==
    IF p_c_apps <= 0 THEN 0
    ELSE
      LET brackets ==
            IF life_apps >= 5 THEN <<7, 9, 10, 11, 12>>
            ELSE IF life_apps = 4 THEN <<6, 8, 9, 10, 11>>
            ELSE IF life_apps = 3 THEN <<5, 7, 8, 9, 10>>
            ELSE IF life_apps = 2 THEN <<4, 6, 7, 8, 9>>
            ELSE <<2, 4, 5, 6, 7>>
      IN  IF p_c_apps >= 50 THEN brackets[5]
          ELSE IF p_c_apps >= 40 THEN brackets[4]
          ELSE IF p_c_apps >= 30 THEN brackets[3]
          ELSE IF p_c_apps >= 20 THEN brackets[2]
          ELSE IF p_c_apps >= 1 THEN brackets[1]
          ELSE 0

fs_bonus(fs_monthly_premium) ==
    IF fs_monthly_premium >= 500 THEN Dollars(800)
    ELSE IF fs_monthly_premium >= 400 THEN Dollars(600)
    ELSE IF fs_monthly_premium >= 300 THEN Dollars(400)
    ELSE IF fs_monthly_premium >= 200 THEN Dollars(200)
    ELSE 0

\* life_app_bonus counting the 6th application among those paid 150.
life_app_bonus_from_fifth(life_apps) ==
    IF life_apps < 6 THEN 0
    ELSE Dollars(500) + (life_apps - 5) * Dollars(150)

life_app_bonus(life_apps) ==
    IF life_apps < 6 THEN 0
    ELSE LET bonus == Dollars(500)
         IN  IF life_apps > 6 THEN bonus + (life_apps - 6) * Dollars(150) ELSE bonus

\* milestone_bonus with its rules tried lowest requirement first.
milestone_bonus_lowest_first(p_c_apps, life_apps) ==
    IF p_c_apps >= 20 /\ life_apps >= 2 THEN Dollars(500)
    ELSE IF p_c_apps >= 25 /\ life_apps >= 3 THEN Dollars(750)
    ELSE IF p_c_apps >= 30 /\ life_apps >= 4 THEN Dollars(1000)
    ELSE 0

milestone_bonus(p_c_apps, life_apps) ==
    IF p_c_apps >= 30 /\ life_apps >= 4 THEN Dollars(1000)
    ELSE IF p_c_apps >= 25 /\ life_apps >= 3 THEN Dollars(750)
    ELSE IF p_c_apps >= 20 /\ life_apps >= 2 THEN Dollars(500)
    ELSE 0

\* ------------------------------------------------------------ the handlers
\* redirect(url_for(endpoint)) after flash(message, category)
Redirect(endpoint, message, category) ==
    [status |-> "redirect", to |-> endpoint, flash |-> <<message, category>>,
     context |-> <<>>]

\* render_template(template, **context)
Render(template, context) ==
    [status |-> "render", to |-> template, flash |-> <<>>, context |-> context]

\* The first validation of enter_sale: a required field is empty.
required_missing(form) ==
    \/ strip(form.client_name) = <<>>
    \/ form.date_sold = <<>>
    \/ form.date_effective = <<>>
    \/ form.premium = <<>>

\* The try block of enter_sale raises ValueError.
parse_fails(form) ==
    \/ ~strptime_date_ok(form.date_sold)
    \/ ~strptime_date_ok(form.date_effective)
    \/ ~float_ok(form.premium)
    \/ (form.fs_monthly_premium # <<>> /\ ~float_ok(form.fs_monthly_premium))

\* The category test left out.
category_valid_unchecked(category) == TRUE

\* category in dict(CATEGORY_LABELS)
category_valid(category) == category \in CategoryKeys

\* The Sale row enter_sale builds; its id is its position in the table.
Sale(current_user, form) ==
    [user_id |-> current_user,
     client_name |-> strip(form.client_name),
     date_sold |-> strptime_date(form.date_sold),
     date_effective |-> strptime_date(form.date_effective),
     category |-> form.category,
     premium |-> float(form.premium),
     fs_monthly_premium |->
        IF form.fs_monthly_premium # <<>>
        THEN <<float(form.fs_monthly_premium)>> ELSE <<>>]

\* The query's filter with the owner test left out.
in_query_any_user(sale, user_id, start, end) ==
    DateLE(start, sale.date_sold) /\ DateLE(sale.date_sold, end)

\* filter_by(user_id=...).filter(date_sold >= start, date_sold <= end)
in_query(sale, user_id, start, end) ==
    /\ sale.user_id = user_id
    /\ DateLE(start, sale.date_sold)
    /\ DateLE(sale.date_sold, end)

query(rows, user_id, start, end) ==
    LET keep(sale) == in_query(sale, user_id, start, end)
    IN  SelectSeq(rows, keep)

RECURSIVE p_c_premium(_)
p_c_premium(rows) ==
    IF rows = <<>> THEN 0
    ELSE (IF Head(rows).category \in P_AND_C_CATEGORIES THEN Head(rows).premium ELSE 0)
         + p_c_premium(Tail(rows))

RECURSIVE p_c_apps(_)
p_c_apps(rows) ==
    IF rows = <<>> THEN 0
    ELSE (IF Head(rows).category \in P_AND_C_CATEGORIES THEN 1 ELSE 0)
         + p_c_apps(Tail(rows))

RECURSIVE life_apps(_)
life_apps(rows) ==
    IF rows = <<>> THEN 0
    ELSE (IF Head(rows).category = "life" THEN 1 ELSE 0) + life_apps(Tail(rows))

RECURSIVE fs_monthly_total(_)
fs_monthly_total(rows) ==
    IF rows = <<>> THEN 0
    ELSE (IF Head(rows).category \in FS_CATEGORIES
          THEN OrZero(Head(rows).fs_monthly_premium) ELSE 0)
         + fs_monthly_total(Tail(rows))

\* The commission paid whatever the premium.
commission_amount_no_threshold(premium, rate) == premium * rate

\* The commission with the threshold itself excluded.
commission_amount_above(premium, rate) ==
    IF premium > 12000 THEN premium * rate ELSE 0

commission_amount(premium, rate) ==
    IF premium >= 12000 THEN premium * rate ELSE 0

commission_eligible(premium) == premium >= 12000

\* The high bonus paid from 1000 on.
fs_high_bonus_from_1000(total) == IF total >= 1000 THEN Dollars(1000) ELSE 0

fs_high_bonus(total) == IF total > 1000 THEN Dollars(1000) ELSE 0

\* The total with the high FS bonus replacing the tiered one.
total_bonus_high_replaces(fs_monthly, fs_high, life, milestone) ==
    (IF fs_high > 0 THEN fs_high ELSE fs_monthly) + life + milestone

total_bonus(fs_monthly, fs_high, life, milestone) ==
    fs_monthly + fs_high + life + milestone

total_compensation(commission, bonus) == commission + bonus

\* The context commission_calculator renders for the rows of its query.
Context(target_month_str, rows) ==
    LET premium == p_c_premium(rows)
        apps == p_c_apps(rows)
        life == life_apps(rows)
        fs_total == fs_monthly_total(rows)
        rate == get_commission_rate(apps, life)
        amount == commission_amount(premium, rate)
        fs_monthly == fs_bonus(fs_total)
        fs_high == fs_high_bonus(fs_total)
        life_bonus == life_app_bonus(life)
        milestone == milestone_bonus(apps, life)
        bonus == total_bonus(fs_monthly, fs_high, life_bonus, milestone)
    IN  [target_month |-> target_month_str,
         sales |-> rows,
         p_c_premium |-> premium,
         p_c_apps |-> apps,
         life_apps |-> life,
         fs_monthly_total |-> fs_total,
         commission_rate |-> rate,
         commission_amount |-> amount,
         commission_eligible |-> commission_eligible(premium),
         fs_monthly_bonus |-> fs_monthly,
         fs_high_bonus |-> fs_high,
         life_bonus_amount |-> life_bonus,
         milestone_bonus_amount |-> milestone,
         total_bonus |-> bonus,
         total_compensation |-> total_compensation(amount, bonus)]

\* enter_sale stores the sale a form makes.
accepts(form) ==
    ~required_missing(form) /\ ~parse_fails(form) /\ category_valid(form.category)

\* ------------------------------------------------------------------ inputs
Users == {1, 2}

ClientNames == {<<" ">>, <<" ", "A", " ">>}

DatesSold == {<<>>, <<2024, 2, 30>>, <<2024, 1, 31>>, <<2024, 2, 1>>, <<2024, 2, 29>>}

DatesEffective == {<<>>, <<2024, 13, 1>>, <<2024, 3, 1>>}

Categories == {"", "annuity", "auto", "life"}

Premiums == {<<>>, <<1, 2>>, <<12000>>}

FsPremiums == {<<>>, <<1, 2>>, <<600>>}

Forms ==
    [client_name : ClientNames, date_sold : DatesSold,
     date_effective : DatesEffective, category : Categories,
     premium : Premiums, fs_monthly_premium : FsPremiums]

TargetMonths == {<<>>, <<2024, 13>>, <<2023, 12>>, <<2024, 1>>, <<2024, 2>>}

UtcNows == {<<2024, 2, 15>>, <<2024, 3, 1>>}

NoForm ==
    [client_name |-> <<>>, date_sold |-> <<>>, date_effective |-> <<>>,
     category |-> "", premium |-> <<>>, fs_monthly_premium |-> <<>>]

\* The request being handled: the route, the logged-in user, request.form,
\* request.values["target_month"] and the clock.
Request(handler, method, current_user, form, target_month_str, utcnow) ==
    [handler |-> handler, method |-> method, user |-> current_user, form |-> form,
     target_month |-> target_month_str, utcnow |-> utcnow]

NoRequest == Request("", "", 0, NoForm, <<>>, <<>>)

NoResponse == [status |-> "", to |-> "", flash |-> <<>>, context |-> <<>>]

NoCall == [fn |-> "", args |-> <<>>, ret |-> 0]

\* ----------------------------------------------------------------- actions
\* POST /enter-sale by a logged-in user.
enter_sale(current_user, form) ==
    /\ response = NoResponse
    /\ request' = Request("enter_sale", "POST", current_user, form, <<>>, <<>>)
    /\ \/ /\ required_missing(form)
          /\ response' = Redirect("enter_sale",
                 "All fields except FS Monthly Premium are required.", "danger")
          /\ UNCHANGED sales
       \/ /\ ~required_missing(form)
          /\ parse_fails(form)
          /\ response' = Redirect("enter_sale",
                 "Please enter valid numbers and dates.", "danger")
          /\ UNCHANGED sales
       \/ /\ ~required_missing(form)
          /\ ~parse_fails(form)
          /\ ~category_valid(form.category)
          /\ response' = Redirect("enter_sale",
                 "Please choose a valid category.", "danger")
          /\ UNCHANGED sales
       \/ /\ ~required_missing(form)
          /\ ~parse_fails(form)
          /\ category_valid(form.category)
          /\ sales' = Append(sales, Sale(current_user, form))
          /\ response' = Redirect("my_sales", "Sale recorded successfully!", "success")
    /\ UNCHANGED call

\* GET /enter-sale
enter_sale_get(current_user) ==
    /\ response = NoResponse
    /\ request' = Request("enter_sale", "GET", current_user, NoForm, <<>>, <<>>)
    /\ response' = Render("enter_sale.html", <<>>)
    /\ UNCHANGED <<sales, call>>

\* GET or POST /commission-calculator by a logged-in user.
commission_calculator(current_user, target_month_str, utcnow) ==
    /\ response = NoResponse
    /\ request' = Request("commission_calculator", "GET", current_user, NoForm,
                          target_month_str, utcnow)
    /\ \/ /\ target_month_str # <<>>
          /\ ~strptime_month_ok(target_month_str)
          /\ response' = Redirect("commission_calculator",
                 "Please select a valid month.", "danger")
       \/ /\ target_month_str = <<>> \/ strptime_month_ok(target_month_str)
          /\ LET target_month ==
                   IF target_month_str # <<>> THEN strptime_month(target_month_str)
                   ELSE utcnow
                 shown == IF target_month_str # <<>> THEN target_month_str
                          ELSE <<utcnow[1], utcnow[2]>>
                 rows == query(sales, current_user, start_of_month(target_month),
                               end_of_month(target_month))
             IN  response' = Render("commission_calculator.html",
                                    <<Context(shown, rows)>>)
    /\ UNCHANGED <<sales, call>>

\* The server sends the handler's response; the next request can be handled.
send_response ==
    /\ response # NoResponse
    /\ request' = NoRequest
    /\ response' = NoResponse
    /\ UNCHANGED <<sales, call>>

Init ==
    /\ sales = <<>>
    /\ request = NoRequest
    /\ response = NoResponse
    /\ call = NoCall

\* The table is bounded to MaxSales rows.
Next ==
    \/ /\ response = NoResponse
       /\ Len(sales) < MaxSales
       /\ \E u \in Users, form \in Forms : enter_sale(u, form)
    \/ \E u \in Users : enter_sale_get(u)
    \/ \E u \in Users, t \in TargetMonths, now \in UtcNows :
          commission_calculator(u, t, now)
    \/ send_response

Spec == Init /\ [][Next]_vars

\* ------------------------------------------------- the engine on a full month
\* The form of one sale of February 2024.
MonthForm(category, premium, fs_monthly_premium) ==
    [client_name |-> <<"A">>, date_sold |-> <<2024, 2, 29>>,
     date_effective |-> <<2024, 3, 1>>, category |-> category,
     premium |-> <<premium>>, fs_monthly_premium |-> fs_monthly_premium]

\* n times the same row.
Repeat(n, row) == [i \in 1..n |-> row]

MonthPremiums == {-100, 375, 625, 1875}

LifeFsPremiums == {<<>>, <<100>>, <<125>>, <<150>>}

HealthFsPremiums == {<<>>, <<-1>>, <<1>>}

\* The table after user 1 entered n_pc auto sales of one premium, n_life life
\* sales of one FS monthly premium and n_health health sales of another.
InitEngine ==
    /\ \E n_pc \in 0..MaxPcApps, n_life \in 0..MaxLifeApps,
          n_health \in 0..MaxHealthApps, premium \in MonthPremiums,
          life_fs \in LifeFsPremiums, health_fs \in HealthFsPremiums :
          LET auto == MonthForm("auto", premium, <<>>)
              life == MonthForm("life", 0, life_fs)
              health == MonthForm("health", 0, health_fs)
          IN  /\ accepts(auto) /\ accepts(life) /\ accepts(health)
              /\ sales = Repeat(n_pc, Sale(1, auto)) \o Repeat(n_life, Sale(1, life))
                         \o Repeat(n_health, Sale(1, health))
    /\ request = NoRequest
    /\ response = NoResponse
    /\ call = NoCall

NextEngine ==
    \/ \E u \in Users, t \in {<<>>, <<2024, 13>>, <<2024, 2>>} :
          commission_calculator(u, t, <<2024, 2, 15>>)
    \/ send_response

SpecEngine == InitEngine /\ [][NextEngine]_vars

\* ------------------------------------- the calculator on rows of any category
\* The Sale table's category column is a String(40) with no constraint: rows
\* the database file already holds need not be rows enter_sale wrote.
TableRows ==
    [user_id : {1}, client_name : {<<"A">>}, date_sold : {<<2024, 2, 29>>},
     date_effective : {<<2024, 3, 1>>}, category : {"auto", "life", "annuity"},
     premium : {6000, 12000}, fs_monthly_premium : {<<>>, <<600>>}]

InitTable ==
    /\ \E n \in 0..MaxSales : sales \in [1..n -> TableRows]
    /\ request = NoRequest
    /\ response = NoResponse
    /\ call = NoCall

SpecTable == InitTable /\ [][NextEngine]_vars

\* --------------------------------------------------- the functions on their own
Called(fn, args, ret) ==
    /\ call = NoCall
    /\ call' = [fn |-> fn, args |-> args, ret |-> ret]
    /\ UNCHANGED <<sales, request, response>>

Returned ==
    /\ call # NoCall
    /\ call' = NoCall
    /\ UNCHANGED <<sales, request, response>>

NextFn ==
    \/ \E p \in -1..MaxPcApps, l \in -1..MaxLifeApps :
          Called("get_commission_rate", <<p, l>>, get_commission_rate(p, l))
    \/ \E x \in -1..MaxFsTotal : Called("fs_bonus", <<x>>, fs_bonus(x))
    \/ \E l \in -1..MaxLifeApps : Called("life_app_bonus", <<l>>, life_app_bonus(l))
    \/ \E p \in -1..MaxPcApps, l \in -1..MaxLifeApps :
          Called("milestone_bonus", <<p, l>>, milestone_bonus(p, l))
    \/ Returned

SpecFn == Init /\ [][NextFn]_vars

\* ================================================================== claims
\* The specification's rate table in hundredths: rows A to E, columns the P&C
\* tiers 1-19, 20-29, 30-39, 40-49 and 50+.
RateTable ==
    << <<2, 4, 5, 6, 7>>, <<4, 6, 7, 8, 9>>, <<5, 7, 8, 9, 10>>,
       <<6, 8, 9, 10, 11>>, <<7, 9, 10, 11, 12>> >>

\* The row of a number of life applications: <2 A, 2 B, 3 C, 4 D, >=5 E.
LifeRow(l) == IF l < 2 THEN 1 ELSE IF l >= 5 THEN 5 ELSE l

\* The column of a number of P&C applications (at least 1).
PcTier(p) ==
    CASE p \in 1..19 -> 1
      [] p \in 20..29 -> 2
      [] p \in 30..39 -> 3
      [] p \in 40..49 -> 4
      [] p >= 50 -> 5

\* The rate the specification gives.
TableRate(p, l) == IF p = 0 THEN 0 ELSE RateTable[LifeRow(l)][PcTier(p)]

\* C1: for all pc_apps >= 0 and life_apps >= 0, get_commission_rate returns 0
\* when pc_apps is 0 and otherwise the rate table's entry for the life-apps
\* row and the P&C-apps tier.
C1_RateIsTableEntry ==
    (call.fn = "get_commission_rate" /\ call.args[1] >= 0 /\ call.args[2] >= 0)
        => call.ret = TableRate(call.args[1], call.args[2])

\* get_commission_rate(50, 5) returned the top entry, 0.12.
C1_Witness ==
    call.fn = "get_commission_rate" /\ call.args = <<50, 5>> /\ call.ret = 12

\* C3: milestone_bonus returns the first matching rule's value, the rules
\* tried highest requirement first, and always one of 0, 500, 750 and 1000.
C3_MilestoneFirstMatch ==
    call.fn = "milestone_bonus" =>
        LET p == call.args[1]
            l == call.args[2]
            top == p >= 30 /\ l >= 4
            mid == p >= 25 /\ l >= 3
            low == p >= 20 /\ l >= 2
        IN  /\ call.ret \in {0, Dollars(500), Dollars(750), Dollars(1000)}
            /\ top => call.ret = Dollars(1000)
            /\ (~top /\ mid) => call.ret = Dollars(750)
            /\ (~top /\ ~mid /\ low) => call.ret = Dollars(500)
            /\ (~top /\ ~mid /\ ~low) => call.ret = 0

\* milestone_bonus(30, 4), which matches all three rules, returned 1000.
C3_Witness ==
    call.fn = "milestone_bonus" /\ call.args = <<30, 4>> /\ call.ret = Dollars(1000)

\* C5: for life_apps >= 0, life_app_bonus is 0 in 0..5, 500 at 6 and
\* 500 + 150 * (life_apps - 6) above 6.
C5_LifeAppBonus ==
    (call.fn = "life_app_bonus" /\ call.args[1] >= 0) =>
        LET n == call.args[1]
        IN  /\ n \in 0..5 => call.ret = 0
            /\ n = 6 => call.ret = Dollars(500)
            /\ n > 6 => call.ret = Dollars(500 + 150 * (n - 6))

\* life_app_bonus(8) returned 800.
C5_Witness ==
    call.fn = "life_app_bonus" /\ call.args = <<8>> /\ call.ret = Dollars(800)

\* The specification's two category groups.
PropertyCasualtyGroup ==
    {"auto", "homeowners", "renters", "plup", "pap", "other_fire", "bank", "business"}

FinancialServicesGroup == {"life", "health"}

RECURSIVE SumTo(_, _)
SumTo(f, n) == IF n = 0 THEN 0 ELSE f[n] + SumTo(f, n - 1)

\* The specification's derived quantities of a collection of sale records.
PcPremiumOf(rows) ==
    SumTo([i \in 1..Len(rows) |->
              IF rows[i].category \in PropertyCasualtyGroup THEN rows[i].premium ELSE 0],
          Len(rows))

PcAppsOf(rows) ==
    Cardinality({i \in 1..Len(rows) : rows[i].category \in PropertyCasualtyGroup})

LifeAppsOf(rows) == Cardinality({i \in 1..Len(rows) : rows[i].category = "life"})

FsMonthlyTotalOf(rows) ==
    SumTo([i \in 1..Len(rows) |->
              IF rows[i].category \in FinancialServicesGroup
                 /\ rows[i].fs_monthly_premium # <<>>
              THEN rows[i].fs_monthly_premium[1] ELSE 0],
          Len(rows))

\* The response is a compensation breakdown; Breakdown is its context.
HasBreakdown ==
    response.status = "render" /\ response.to = "commission_calculator.html"

Breakdown == response.context[1]

\* C2: the commission amount is pc_premium * rate when pc_premium >= 12000 and
\* 0 otherwise, the eligibility flag is true exactly when pc_premium >= 12000,
\* and the rate reported is the looked-up rate also below the threshold.
C2_CommissionThreshold ==
    HasBreakdown =>
        LET c == Breakdown
            premium == PcPremiumOf(c.sales)
            rate == TableRate(PcAppsOf(c.sales), LifeAppsOf(c.sales))
        IN  /\ c.p_c_premium = premium
            /\ c.commission_rate = rate
            /\ c.commission_eligible = (premium >= 12000)
            /\ c.commission_amount = IF premium >= 12000 THEN premium * rate ELSE 0

\* A breakdown below the threshold: no commission, not eligible, a rate above 0.
C2_Witness ==
    /\ HasBreakdown
    /\ Breakdown.p_c_premium > 0
    /\ Breakdown.p_c_premium < 12000
    /\ Breakdown.commission_rate > 0
    /\ Breakdown.commission_amount = 0
    /\ ~Breakdown.commission_eligible

\* C4: fs_monthly_bonus is 800 from 500, 600 from 400, 400 from 300, 200 from
\* 200 and 0 below; fs_high_bonus is 1000 exactly when the total is above 1000;
\* the two are added: 1800 whenever the high bonus is paid, 800 at exactly 1000.
C4_FsBonusesStack ==
    HasBreakdown =>
        LET c == Breakdown
            total == FsMonthlyTotalOf(c.sales)
            fs_related == c.total_bonus - c.life_bonus_amount - c.milestone_bonus_amount
        IN  /\ c.fs_monthly_total = total
            /\ c.fs_monthly_bonus =
                  CASE total >= 500 -> Dollars(800)
                    [] total \in 400..499 -> Dollars(600)
                    [] total \in 300..399 -> Dollars(400)
                    [] total \in 200..299 -> Dollars(200)
                    [] total < 200 -> 0
            /\ c.fs_high_bonus = (IF total > 1000 THEN Dollars(1000) ELSE 0)
            /\ fs_related = c.fs_monthly_bonus + c.fs_high_bonus
            /\ c.fs_high_bonus = Dollars(1000) => fs_related = Dollars(1800)
            /\ total = 1000 => fs_related = Dollars(800)

\* A breakdown of an FS monthly total of 1200: 800 and 1000 are both paid.
C4_Witness ==
    /\ HasBreakdown
    /\ Breakdown.fs_monthly_total = 1200
    /\ Breakdown.fs_monthly_bonus = Dollars(800)
    /\ Breakdown.fs_high_bonus = Dollars(1000)
    /\ Breakdown.total_bonus - Breakdown.life_bonus_amount
          - Breakdown.milestone_bonus_amount = Dollars(1800)

\* C6: total_bonus is the sum of the four bonuses and total_compensation is
\* commission_amount + total_bonus; with no record every amount is 0 and the
\* eligibility flag is false.
C6_Totals ==
    HasBreakdown =>
        LET c == Breakdown
        IN  /\ c.total_bonus = c.fs_monthly_bonus + c.fs_high_bonus
                               + c.life_bonus_amount + c.milestone_bonus_amount
            /\ c.total_compensation = c.commission_amount + c.total_bonus
            /\ c.sales = <<>> =>
                  /\ c.p_c_premium = 0 /\ c.p_c_apps = 0 /\ c.life_apps = 0
                  /\ c.fs_monthly_total = 0
                  /\ c.commission_rate = 0 /\ c.commission_amount = 0
                  /\ ~c.commission_eligible
                  /\ c.fs_monthly_bonus = 0 /\ c.fs_high_bonus = 0
                  /\ c.life_bonus_amount = 0 /\ c.milestone_bonus_amount = 0
                  /\ c.total_bonus = 0 /\ c.total_compensation = 0

\* The specification's scenario: 32 P&C and 4 life applications, a premium of
\* 20000, a rate of 0.09, a commission of 1800, a milestone bonus of 1000.
C6_Witness ==
    /\ HasBreakdown
    /\ Breakdown.p_c_apps = 32 /\ Breakdown.life_apps = 4
    /\ Breakdown.p_c_premium = 20000
    /\ Breakdown.commission_rate = 9
    /\ Breakdown.commission_amount = Dollars(1800)
    /\ Breakdown.milestone_bonus_amount = Dollars(1000)
    /\ Breakdown.life_bonus_amount = 0
    /\ Breakdown.total_compensation = Dollars(2800)

\* C7: the commission computation given a sale of a category outside the
\* enumeration flags it and produces no breakdown from it.
C7_UnknownCategoryFlagged ==
    HasBreakdown =>
        \A i \in 1..Len(Breakdown.sales) :
            Breakdown.sales[i].category \in PropertyCasualtyGroup \cup FinancialServicesGroup

\* C8: in every breakdown of sales enter_sale stores, negative premiums
\* included, the rate, the commission, the four bonuses and the two totals are
\* not negative.
C8_NonNegative ==
    HasBreakdown =>
        LET c == Breakdown
        IN  /\ c.commission_rate >= 0 /\ c.commission_amount >= 0
            /\ c.fs_monthly_bonus >= 0 /\ c.fs_high_bonus >= 0
            /\ c.life_bonus_amount >= 0 /\ c.milestone_bonus_amount >= 0
            /\ c.total_bonus >= 0 /\ c.total_compensation >= 0

\* A breakdown of stored sales of negative premium and negative FS premium.
C8_Witness ==
    /\ HasBreakdown
    /\ Breakdown.p_c_apps > 0 /\ Breakdown.p_c_premium < 0
    /\ Breakdown.fs_monthly_total < 0
    /\ Breakdown.commission_rate > 0

\* A submission enter_sale is to reject: a required field is missing, a date
\* or a number does not parse, or the category is outside the enumeration.
Rejected(form) ==
    \/ \A i \in 1..Len(form.client_name) : form.client_name[i] = " "
    \/ form.date_sold = <<>> \/ form.date_effective = <<>> \/ form.premium = <<>>
    \/ ~strptime_date_ok(form.date_sold) \/ ~strptime_date_ok(form.date_effective)
    \/ ~float_ok(form.premium)
    \/ (form.fs_monthly_premium # <<>> /\ ~float_ok(form.fs_monthly_premium))
    \/ form.category \notin PropertyCasualtyGroup \cup FinancialServicesGroup

\* Every stored sale is of exactly one of the two groups.
StoredInOneGroup ==
    \A i \in 1..Len(sales) :
        (sales[i].category \in PropertyCasualtyGroup)
            # (sales[i].category \in FinancialServicesGroup)

\* C9: every stored sale is of exactly one of the two category groups; a
\* rejected submission leaves the stored sales unchanged and an accepted one
\* adds exactly one sale, owned by the submitting user.
C9_EnterSaleValidates ==
    /\ []StoredInOneGroup
    /\ [][(request'.handler = "enter_sale" /\ request'.method = "POST") =>
             IF Rejected(request'.form)
             THEN sales' = sales /\ response'.to = "enter_sale"
             ELSE /\ Len(sales') = Len(sales) + 1
                  /\ SubSeq(sales', 1, Len(sales)) = sales
                  /\ sales'[Len(sales')].user_id = request'.user]_vars

\* User 2's submission was accepted after user 1's: two sales, one of each.
C9_Witness ==
    /\ request.handler = "enter_sale" /\ request.user = 2
    /\ response.to = "my_sales"
    /\ Len(sales) = 2
    /\ sales[1].user_id = 1 /\ sales[2].user_id = 2

\* The month a commission_calculator request asks for.
TargetOf(req) ==
    IF req.target_month # <<>> THEN req.target_month
    ELSE <<req.utcnow[1], req.utcnow[2]>>

\* The user's sales sold in the month.
OwnMonthRows(rows, user, month) ==
    LET own(row) ==
          /\ row.user_id = user
          /\ row.date_sold[1] = month[1]
          /\ row.date_sold[2] = month[2]
    IN  SelectSeq(rows, own)

\* C10: the breakdown for a user and a month is that of the user's sales sold
\* in that month alone, whatever else the table holds, and computing it
\* leaves the table unchanged.
C10_OwnMonthOnly ==
    /\ [](request.handler = "commission_calculator" /\ HasBreakdown =>
             Breakdown = Context(TargetOf(request),
                                 OwnMonthRows(sales, request.user, TargetOf(request))))
    /\ [][request'.handler = "commission_calculator" => sales' = sales]_vars

\* User 1's breakdown for February 2024 while the table holds a sale of user 2
\* in February and a sale of user 1 on the last day of February.
C10_Witness ==
    /\ request.handler = "commission_calculator" /\ request.user = 1
    /\ HasBreakdown
    /\ Breakdown.target_month = <<2024, 2>>
    /\ Len(sales) = 2
    /\ sales[1].user_id = 2 /\ sales[1].date_sold = <<2024, 2, 29>>
    /\ sales[2].user_id = 1 /\ sales[2].date_sold = <<2024, 2, 29>>
    /\ Len(Breakdown.sales) = 1

=============================================================================
